---- MODULE Spec2Model ----
(***************************************************************************)
(* Model of src/app.py (AI Career Copilot): the text normalizer            *)
(* clean_text, the PDF extraction adapter, the job-description classifier, *)
(* the prompt builder and the Streamlit script whose reruns implement the  *)
(* readiness gate over st.session_state.                                   *)
(*                                                                         *)
(* Text is a sequence of characters; a character is a one-element name     *)
(* (a TLA+ string).  Python's None is the one-element sequence <<"None">>, *)
(* which is not a text over Chars.                                         *)
(***************************************************************************)
EXTENDS Integers, Sequences, FiniteSets, TLC

VARIABLES
    \* ---- the Streamlit session ----
    resume_file,        \* the file_uploader widget: NoFile or an uploaded PDF
    job_description,    \* the text_area widget: the live job-description text
    session_state,      \* st.session_state: a function from the keys present to values
    ready,              \* the flag of the Analyze button on screen (disabled = ~ready),
                        \* rendered by the last run that reached line 383
    action,             \* which interaction triggered the last script run
    banners,            \* the st.error / st.warning / st.success messages of the last run,
                        \* in the order the run emitted them (the report is one more)
    classifier_calls,   \* requests sent to the classification service during the last run
    generation_calls,   \* requests sent to the generation service during the last run
    template,           \* the prompt template chosen by the last run's analysis call
    verdict,            \* what validate_job_description_gpt returned in the last run
    uncaught,           \* TRUE iff an exception escaped the handlers of the last run
    pdf_failed,         \* TRUE iff extract_pdf_text raised during the last run
    interrupted,        \* TRUE iff a widget event ended the last run before its
                        \* handler finished
    last_parse_wrote,   \* history: keys assigned by the latest parse run that assigned any
    verdict_for,        \* history: the text whose verdict is stored in job_description_valid
    \* ---- the normalizer applied to arbitrary text ----
    t,                  \* the argument of clean_text
    cleaned,            \* clean_text(t)
    recleaned,          \* clean_text(clean_text(t))
    npc                 \* "start" before the calls, "done" after

sessionVars == <<resume_file, job_description, session_state, ready, action, banners,
                 classifier_calls, generation_calls, template, verdict, uncaught,
                 pdf_failed, interrupted, last_parse_wrote, verdict_for>>
normVars == <<t, cleaned, recleaned, npc>>
vars == <<sessionVars, normVars>>

(***************************************************************************)
(* Characters                                                              *)
(***************************************************************************)
SP == " "
TAB == "\t"
NL == "\n"
CR == "\r"
FF == "\f"
ZWSP == "u200b"
BOM == "ufeff"
Letter == "a"

None == <<"None">>

\* the characters str.strip() and str.split() treat as whitespace
Whitespace == {SP, TAB, NL, CR, FF}

\* the alphabet of the texts the normalizer is explored on
Chars == {SP, TAB, NL, ZWSP, BOM, Letter}

\* the longest text the normalizer is explored on
MaxLen == 5

Texts(n) == UNION {[1..k -> Chars] : k \in 0..n}

(***************************************************************************)
(* String helpers (Python str / re semantics on sequences)                 *)
(***************************************************************************)
\* length of the maximal prefix of s made of characters of C
RECURSIVE RunLen(_, _)
RunLen(s, C) ==
    IF s = <<>> \/ Head(s) \notin C THEN 0 ELSE 1 + RunLen(Tail(s), C)

Drop(s, n) == SubSeq(s, n + 1, Len(s))

Rep(c, n) == [i \in 1..n |-> c]

\* the characters of s at the positions lo..hi that keep marks, in order;
\* the recursion halves the range
RECURSIVE Pick(_, _, _, _)
Pick(s, keep, lo, hi) ==
    IF lo > hi THEN <<>>
    ELSE IF lo = hi THEN (IF keep[lo] THEN <<s[lo]>> ELSE <<>>)
    ELSE LET mid == (lo + hi) \div 2
         IN  Pick(s, keep, lo, mid) \o Pick(s, keep, mid + 1, hi)

IsBlank(c) == c \in {SP, TAB}

\* position i starts a run of spaces/tabs, or is no space/tab at all
SpaceKept(s, i) == ~IsBlank(s[i]) \/ i = 1 \/ ~IsBlank(s[i - 1])

\* re.sub(r"[ \t]+", " ", s): each maximal run of spaces/tabs becomes one space
SubSpaces(s) ==
    Pick([i \in 1..Len(s) |-> IF IsBlank(s[i]) THEN SP ELSE s[i]],
         [i \in 1..Len(s) |-> SpaceKept(s, i)], 1, Len(s))

\* position i is no newline, or is the first or second newline of its run
NewlineKept(s, i) == s[i] # NL \/ i <= 2 \/ s[i - 1] # NL \/ s[i - 2] # NL

\* re.sub(r"\n{3,}", "\n\n", s): each maximal run of 3+ newlines becomes two
SubNewlines(s) == Pick(s, [i \in 1..Len(s) |-> NewlineKept(s, i)], 1, Len(s))

IsZeroWidth(c) == c \in {ZWSP, BOM}
KeepChar(c) == ~IsZeroWidth(c)

\* re.sub(r"\u200b|\ufeff", "", s)
SubZeroWidth(s) == SelectSeq(s, KeepChar)

Reverse(s) == [i \in 1..Len(s) |-> s[Len(s) + 1 - i]]

\* str.strip()
strip(s) ==
    LET a == Drop(s, RunLen(s, Whitespace))
        b == RunLen(Reverse(a), Whitespace)
    IN  SubSeq(a, 1, Len(a) - b)

\* len(s.split()): the number of maximal runs of non-whitespace characters
WordCount(s) ==
    Cardinality({i \in 1..Len(s) :
                    s[i] \notin Whitespace /\ (i = 1 \/ s[i - 1] \in Whitespace)})

(***************************************************************************)
(* clean_text (src/app.py:85-92)                                           *)
(***************************************************************************)
\* the three substitutions and the strip, in the order the code applies them
clean_text(x) ==
    IF x = None \/ x = <<>> THEN <<>>
    ELSE strip(SubZeroWidth(SubNewlines(SubSpaces(x))))

(***************************************************************************)
(* The uploaded PDF and extract_pdf_text (src/app.py:17-27)                *)
(***************************************************************************)
\* An uploaded PDF: either PdfReader fails on it, or it has pages, each of
\* which extracts to a text or to None (a page with no text layer).
NoFile == [name |-> "None", corrupt |-> FALSE, pages |-> <<>>]

MinResumeChars == 200

Files == {
    [name |-> "corrupt.pdf", corrupt |-> TRUE,  pages |-> <<>>],
    [name |-> "scanned.pdf", corrupt |-> FALSE, pages |-> <<None, <<>>>>],
    [name |-> "zwsp.pdf",    corrupt |-> FALSE,
     pages |-> <<<<Letter, SP, ZWSP, SP, Letter>>, <<Letter>>>>],
    [name |-> "long.pdf",    corrupt |-> FALSE, pages |-> <<Rep(Letter, MinResumeChars)>>] }

\* "\n".join(chunks)
RECURSIVE Join(_)
Join(chunks) ==
    IF chunks = <<>> THEN <<>>
    ELSE IF Len(chunks) = 1 THEN chunks[1]
    ELSE chunks[1] \o <<NL>> \o Join(Tail(chunks))

\* page.extract_text() or ""
PageText(page) == IF page = None \/ page = <<>> THEN <<>> ELSE page

extract_pdf_text(file) ==
    IF file.corrupt
    THEN [raised |-> TRUE, value |-> <<>>]
    ELSE [raised |-> FALSE,
          value |-> Join([i \in 1..Len(file.pages) |-> PageText(file.pages[i])])]

(***************************************************************************)
(* The classification service and validate_job_description_gpt             *)
(* (src/app.py:30-83)                                                      *)
(***************************************************************************)
\* JSON values
JBool(b) == [type |-> "bool", val |-> b]
JStr(x) == [type |-> "string", val |-> x]
JNum(n) == [type |-> "number", val |-> n]
JNull == [type |-> "null"]
JArray(items) == [type |-> "array", items |-> items]
JObject(members) == [type |-> "object", members |-> members]
EmptyMembers == [k \in {} |-> JNull]

\* What client.chat.completions.create does: it raises, or it returns a
\* response whose message content is None, text that is not JSON, or the
\* text of a JSON value.
ApiError == [api |-> "error"]
ApiContent(c) == [api |-> "ok", content |-> c]
NoContent == [form |-> "none"]
Garbage == [form |-> "garbage"]
JsonText(v) == [form |-> "json", value |-> v]

Responses == {
    ApiError,
    ApiContent(NoContent),
    ApiContent(Garbage),
    ApiContent(JsonText(JArray(<<JBool(TRUE)>>))),
    ApiContent(JsonText(JObject(EmptyMembers))),
    ApiContent(JsonText(JObject([is_valid |-> JBool(TRUE), reason |-> JStr("a job posting")]))),
    ApiContent(JsonText(JObject([is_valid |-> JBool(FALSE), reason |-> JStr("not a job posting")]))),
    ApiContent(JsonText(JObject([is_valid |-> JStr("false"), reason |-> JStr("not a job posting")]))),
    ApiContent(JsonText(JObject([is_valid |-> JNull, reason |-> JStr("unsure")]))),
    ApiContent(JsonText(JObject([is_valid |-> JNum(0), reason |-> JStr("zero")]))) }

\* json.loads(content): TypeError on None, JSONDecodeError on non-JSON text
json_loads(content) ==
    IF content.form = "json"
    THEN [raised |-> FALSE, value |-> content.value]
    ELSE [raised |-> TRUE, value |-> JNull]

\* Python's bool() on a decoded JSON value
PyBool(v) ==
    CASE v.type = "bool" -> v.val
      [] v.type = "string" -> v.val # ""
      [] v.type = "number" -> v.val # 0
      [] v.type = "null" -> FALSE
      [] v.type = "array" -> v.items # <<>>
      [] v.type = "object" -> DOMAIN v.members # {}

\* data.get(key, default): AttributeError unless data is a dict
DictGet(data, key, default) ==
    IF data.type # "object" THEN [raised |-> TRUE, value |-> default]
    ELSE IF key \in DOMAIN data.members
         THEN [raised |-> FALSE, value |-> data.members[key]]
         ELSE [raised |-> FALSE, value |-> default]

ClassifierMinWords == 40

ShortReason == JStr("The text is very short. A job description is usually at least a few sentences.")
FailedReason == JStr("Validation failed: <exception>")

\* validate_job_description_gpt with the length filter counting characters
\* (len(jd_text) < 40) where the code counts words
validate_counting_chars(jd_text, resp) ==
    IF Len(jd_text) < ClassifierMinWords
    THEN [raised |-> FALSE, is_valid |-> FALSE, reason |-> ShortReason, calls |-> 0]
    ELSE IF resp.api = "error"
    THEN [raised |-> TRUE, is_valid |-> FALSE, reason |-> JNull, calls |-> 1]
    ELSE LET data == json_loads(resp.content)
             iv == DictGet(data.value, "is_valid", JBool(FALSE))
             rs == DictGet(data.value, "reason", JStr(""))
         IN  IF data.raised \/ iv.raised \/ rs.raised
             THEN [raised |-> FALSE, is_valid |-> FALSE, reason |-> FailedReason, calls |-> 1]
             ELSE [raised |-> FALSE, is_valid |-> PyBool(iv.value), reason |-> rs.value,
                   calls |-> 1]

\* The result: raised = the exception of the request left the function;
\* calls = requests sent to the service.
validate_job_description_gpt(jd_text, resp) ==
    IF WordCount(jd_text) < ClassifierMinWords
    THEN [raised |-> FALSE, is_valid |-> FALSE, reason |-> ShortReason, calls |-> 0]
    ELSE IF resp.api = "error"
    THEN [raised |-> TRUE, is_valid |-> FALSE, reason |-> JNull, calls |-> 1]
    ELSE LET data == json_loads(resp.content)
             iv == DictGet(data.value, "is_valid", JBool(FALSE))
             rs == DictGet(data.value, "reason", JStr(""))
         IN  IF data.raised \/ iv.raised \/ rs.raised
             THEN [raised |-> FALSE, is_valid |-> FALSE, reason |-> FailedReason, calls |-> 1]
             ELSE [raised |-> FALSE, is_valid |-> PyBool(iv.value), reason |-> rs.value,
                   calls |-> 1]

(***************************************************************************)
(* jd_too_short and analyze_resume_with_ai (src/app.py:94-155)             *)
(***************************************************************************)
JdMinWords == 40
PromptMinWords == 40

jd_too_short(jd, min_words) == WordCount(jd) < min_words

\* What the generation service does with the request: it raises, it returns
\* a completion with no content, or it returns Markdown.
GenResponses == {"error", "none", "markdown"}

analyze_resume_with_ai(resume_text, jd, gen) ==
    LET jd_words == WordCount(jd)
    IN  [template |-> IF jd_words < PromptMinWords THEN "resume_only" ELSE "comparison",
         calls |-> 1,
         raised |-> gen # "markdown"]

(***************************************************************************)
(* st.session_state                                                        *)
(***************************************************************************)
Keys == {"resume_text", "job_description", "job_description_valid"}

EmptyState == [k \in {} |-> FALSE]

\* st.session_state[k] = v
Put(ss, k, v) == [x \in (DOMAIN ss) \cup {k} |-> IF x = k THEN v ELSE ss[x]]

\* bool(st.session_state.get(k)) for a text and for the flag
TruthyText(ss, k) == k \in DOMAIN ss /\ ss[k] # <<>>
TruthyFlag(ss, k) == k \in DOMAIN ss /\ ss[k]

\* src/app.py:373-377
Ready(ss) ==
    /\ TruthyText(ss, "resume_text")
    /\ TruthyText(ss, "job_description")
    /\ TruthyFlag(ss, "job_description_valid")

(***************************************************************************)
(* The job descriptions typed into the text area                           *)
(***************************************************************************)
\* n one-letter words separated by single spaces
Words(n) == [i \in 1..(2 * n - 1) |-> IF i % 2 = 1 THEN Letter ELSE SP]

JDInputs == {
    <<SP, NL, SP>>,
    Words(JdMinWords - 1),
    Words(JdMinWords),
    <<SP>> \o Words(JdMinWords) \o <<NL>> }

(***************************************************************************)
(* The handlers of one script run                                          *)
(***************************************************************************)
NoVerdict == [called |-> FALSE]

\* src/app.py:316-319, the status panel: every run, before the handlers, emits
\* st.success when a non-empty resume text is stored (st.info otherwise)
StatusBanner(ss) ==
    IF TruthyText(ss, "resume_text") THEN <<"success: parsed resume stored">> ELSE <<>>

Outcome(ss, msgs, calls, v, wrote, escaped) ==
    [ss |-> ss, banners |-> msgs, calls |-> calls, verdict |-> v, wrote |-> wrote,
     uncaught |-> escaped]

\* src/app.py:337-343
ResumeBanner(text) ==
    IF text = <<>> \/ Len(text) < MinResumeChars
    THEN "warning: could not extract much text"
    ELSE "success: resume parsed"

Rejected(ss, msg) ==
    [done |-> TRUE, out |-> Outcome(ss, <<msg>>, 0, NoVerdict, {}, FALSE)]

Extracted(text, jd) == [done |-> FALSE, text |-> text, jd |-> jd]

\* the first part of the parse handler storing the job description before it
\* reads the PDF
ParseBeginEarlyStore(file, jd, ss) ==
    IF file = NoFile
    THEN Rejected(ss, "error: upload a PDF resume first")
    ELSE IF strip(jd) = <<>>
    THEN Rejected(ss, "error: paste the job description")
    ELSE LET raw == extract_pdf_text(file) IN
         IF raw.raised
         THEN [done |-> TRUE,
               out |-> Outcome(Put(ss, "job_description", strip(jd)),
                               <<"error: resume parsing failed">>, 0, NoVerdict,
                               {"job_description"}, FALSE)]
         ELSE Extracted(clean_text(raw.value), strip(jd))

\* the first part of the parse handler without the check for a blank job
\* description
ParseBeginNoJdCheck(file, jd, ss) ==
    IF file = NoFile
    THEN Rejected(ss, "error: upload a PDF resume first")
    ELSE LET raw == extract_pdf_text(file) IN
         IF raw.raised
         THEN Rejected(ss, "error: resume parsing failed")
         ELSE Extracted(clean_text(raw.value), strip(jd))

\* src/app.py:325-348, the body of `if st.button("Continue -> Parse Resume")`
\* up to the first assignment to st.session_state: the run is done with an
\* error banner, or it holds the cleaned resume text and the stripped job
\* description it is about to store
ParseBegin(file, jd, ss) ==
    IF file = NoFile
    THEN Rejected(ss, "error: upload a PDF resume first")
    ELSE IF strip(jd) = <<>>
    THEN Rejected(ss, "error: paste the job description")
    ELSE LET raw == extract_pdf_text(file) IN
         IF raw.raised
         THEN \* RuntimeError("Could not read PDF"), caught at line 366
              Rejected(ss, "error: resume parsing failed")
         ELSE Extracted(clean_text(raw.value), strip(jd))

\* src/app.py:350-367: the rest of the try block and its except clause, when
\* the run is left to finish
ParseStore(text, jd, ss, resp) ==
    LET ss2 == Put(Put(ss, "resume_text", text), "job_description", jd)
        v == validate_job_description_gpt(ss2["job_description"], resp)
        seen == [called |-> TRUE, jd |-> ss2["job_description"], resp |-> resp,
                 raised |-> v.raised, is_valid |-> v.is_valid, reason |-> v.reason]
    IN  IF v.raised
        THEN \* the except clause of line 366 catches the request's exception
             Outcome(ss2, <<ResumeBanner(text), "error: resume parsing failed">>,
                     v.calls, seen, {"resume_text", "job_description"}, FALSE)
        ELSE Outcome(Put(ss2, "job_description_valid", v.is_valid),
                     <<ResumeBanner(text),
                       IF v.is_valid THEN "success: job description looks valid"
                       ELSE "error: not a real job description">>,
                     v.calls, seen, Keys, FALSE)

(***************************************************************************)
(* Runs ended early.  Streamlit serves a pending widget event at the next  *)
(* Streamlit call of the running script (an st.* call or an access to      *)
(* st.session_state): the run ends at that call, which has no effect, and  *)
(* what the run did before it stays.  Calls are named by their line.       *)
(***************************************************************************)
\* the call that leaving the `with st.spinner(...)` block opened at a line
\* makes (the spinner is removed from the page)
BlockExit(line) == 0 - line

\* src/app.py:162-316, the calls before the status panel's message
HeadLines == {162, 168, 273, 291, 293, 296, 297, 301, 302, 309, 314, 315, 316}

\* src/app.py:317 / 319, the status panel's message
PanelLine(ss) == IF TruthyText(ss, "resume_text") THEN 317 ELSE 319

\* src/app.py:320-325, up to the Parse button
MidLines == {320, 322, 323, 325}

\* src/app.py:327-367, the calls of the parse handler
ParseLines ==
    {327, 329, 331, 338, 343, 346, 347, 350, 351, 354, 356, 359, 361, 367, BlockExit(331)}

\* src/app.py:370-383, from the parse handler's end to the Analyze button: the
\* `and` of lines 374-376 reads the next key only when the one before is
\* truthy, and the caption of line 379 is shown when the gate is not READY
GateLines(ss) ==
    {370, 371, 374, 383}
        \cup (IF TruthyText(ss, "resume_text") THEN {375} ELSE {})
        \cup (IF TruthyText(ss, "resume_text") /\ TruthyText(ss, "job_description")
              THEN {376} ELSE {})
        \cup (IF Ready(ss) THEN {} ELSE {379})

\* src/app.py:384-399, the calls of the Analyze handler
AnalyzeLines == {384, 386, 391, 394, 397, 399, BlockExit(391)}

CutPoints ==
    HeadLines \cup {317, 319} \cup MidLines \cup ParseLines
        \cup {370, 371, 374, 375, 376, 379, 383} \cup AnalyzeLines

\* the run does not reach the call
NoCut == [enabled |-> FALSE]

\* a plain or parse run ended at a call: the store, the banners shown, the
\* classification requests sent, the verdict taken, the keys assigned so far
\* and whether extract_pdf_text has raised
Snap(ss, msgs, calls, v, wrote) ==
    [enabled |-> TRUE, ss |-> ss, banners |-> msgs, calls |-> calls, verdict |-> v,
     wrote |-> wrote, failed |-> FALSE]

\* extract_pdf_text raised (src/app.py:334, RuntimeError of line 27)
PdfFailed(b) == b.done /\ b.out.banners = <<"error: resume parsing failed">>

\* src/app.py:162-383, a run with no button clicked, ended at the call of
\* line `at`: the Analyze button is not rendered again
PlainCut(ss, at) ==
    IF at \in HeadLines \cup {PanelLine(ss)}
    THEN Snap(ss, <<>>, 0, NoVerdict, {})
    ELSE IF at \in MidLines \cup GateLines(ss)
    THEN Snap(ss, StatusBanner(ss), 0, NoVerdict, {})
    ELSE NoCut

\* src/app.py:338 / 343, the line of the resume banner
ResumeBannerLine(text) ==
    IF text = <<>> \/ Len(text) < MinResumeChars THEN 338 ELSE 343

\* the calls a rejected parse reaches inside the handler
RejectLines(msg) ==
    CASE msg = "error: upload a PDF resume first" -> {327}
      [] msg = "error: paste the job description" -> {329}
      [] msg = "error: resume parsing failed" -> {331, 367}

\* src/app.py:162-383, a run with the Parse button clicked, ended at the call
\* of line `at`; b is what ParseBegin gave and o what the handler gives when it
\* is left to finish (the verdict it takes from the service included).  What
\* lines 350, 351 and 356 assigned before the call stays stored; the Analyze
\* button is not rendered again.
ParseCut(b, o, ss, at) ==
    LET status == StatusBanner(ss)
        before == Snap(ss, status, 0, NoVerdict, {})
        failed == PdfFailed(b)
        after == [Snap(o.ss, status \o o.banners, o.calls, o.verdict, o.wrote)
                    EXCEPT !.failed = failed]
    IN  IF at \in HeadLines \cup {PanelLine(ss)}
        THEN Snap(ss, <<>>, 0, NoVerdict, {})
        ELSE IF at \in MidLines
        THEN before
        ELSE IF at \in GateLines(o.ss)
        THEN after
        ELSE IF b.done
        THEN IF failed /\ at = 367 THEN [before EXCEPT !.failed = TRUE]
             ELSE IF failed /\ at = BlockExit(331) THEN after
             ELSE IF at \in RejectLines(b.out.banners[1]) THEN before
             ELSE NoCut
        ELSE LET shown == status \o <<ResumeBanner(b.text)>>
                 ss1 == Put(ss, "resume_text", b.text)
                 ss2 == Put(ss1, "job_description", b.jd)
                 two == {"resume_text", "job_description"}
             IN  CASE at = 331 \/ at = ResumeBannerLine(b.text) -> before
                   [] at \in {346, 347, 350} -> Snap(ss, shown, 0, NoVerdict, {})
                   [] at = 351 -> Snap(ss1, shown, 0, NoVerdict, {"resume_text"})
                   [] at = 354 -> Snap(ss2, shown, 0, NoVerdict, two)
                   [] at = (IF o.verdict.raised THEN 367 ELSE 356) ->
                        Snap(ss2, shown, o.calls, o.verdict, two)
                   [] ~o.verdict.raised /\ at = (IF o.verdict.is_valid THEN 359 ELSE 361) ->
                        Snap(o.ss, shown, o.calls, o.verdict, Keys)
                   [] at = BlockExit(331) -> after
                   [] OTHER -> NoCut

\* an Analyze run ended at a call: the banners shown, whether the Analyze
\* button was rendered again, the generation requests sent and their template
AnalyzeSnap(msgs, rendered, calls, tmpl) ==
    [enabled |-> TRUE, banners |-> msgs, rendered |-> rendered, calls |-> calls,
     template |-> tmpl]

\* src/app.py:383-399, the body of `if st.button("Analyze with AI", ...)`
AnalyzeHandler(ss, gen) ==
    IF "job_description" \notin DOMAIN ss
    THEN \* st.session_state["job_description"] raises KeyError outside any try
         [ran |-> TRUE, banners |-> <<>>, calls |-> 0, template |-> "none", uncaught |-> TRUE]
    ELSE LET jd == ss["job_description"] IN
         IF jd_too_short(jd, JdMinWords)
         THEN [ran |-> TRUE, banners |-> <<"error: job description too short">>, calls |-> 0,
               template |-> "none", uncaught |-> FALSE]
         ELSE IF "resume_text" \notin DOMAIN ss
         THEN \* KeyError inside the try
              [ran |-> TRUE, banners |-> <<"error: analysis failed">>, calls |-> 0,
               template |-> "none", uncaught |-> FALSE]
         ELSE LET r == analyze_resume_with_ai(ss["resume_text"], jd, gen)
              IN  [ran |-> TRUE,
                   banners |-> IF r.raised THEN <<"error: analysis failed">>
                               ELSE <<"markdown report">>,
                   calls |-> r.calls, template |-> r.template, uncaught |-> FALSE]

\* src/app.py:162-399, a run with the Analyze button clicked, ended at the call
\* of line `at`; o is what the handler gives when it is left to finish.  Past
\* line 383 the button is rendered again; at lines 397 and 399 the generation
\* request has returned or raised; at the exit of the spinner block the report
\* or the error banner is shown.
AnalyzeCut(ss, o, at) ==
    LET status == StatusBanner(ss)
        short == o.banners = <<"error: job description too short">>
        began == AnalyzeSnap(status, TRUE, 0, "none")
    IN  IF at \in HeadLines \cup {PanelLine(ss)}
        THEN AnalyzeSnap(<<>>, FALSE, 0, "none")
        ELSE IF at \in MidLines \cup GateLines(ss)
        THEN AnalyzeSnap(status, FALSE, 0, "none")
        ELSE CASE at = 384 -> began
               [] at = 386 /\ ~o.uncaught /\ short -> began
               [] at \in {391, 394} /\ ~o.uncaught /\ ~short -> began
               [] at = 397 /\ o.banners = <<"markdown report">> ->
                    AnalyzeSnap(status, TRUE, o.calls, o.template)
               [] at = 399 /\ o.banners = <<"error: analysis failed">> ->
                    AnalyzeSnap(status, TRUE, o.calls, o.template)
               [] at = BlockExit(391) /\ ~o.uncaught /\ ~short ->
                    AnalyzeSnap(status \o o.banners, TRUE, o.calls, o.template)
               [] OTHER -> NoCut

(***************************************************************************)
(* The session: every interaction reruns the script top to bottom          *)
(***************************************************************************)
NormIdle ==
    /\ t = <<>>
    /\ cleaned = <<>>
    /\ recleaned = <<>>
    /\ npc = "idle"

\* the first run of the script: nothing uploaded, nothing stored
Init ==
    /\ resume_file = NoFile
    /\ job_description = <<>>
    /\ session_state = EmptyState
    /\ ready = Ready(EmptyState)
    /\ action = "open"
    /\ banners = StatusBanner(EmptyState)
    /\ classifier_calls = 0
    /\ generation_calls = 0
    /\ template = "none"
    /\ verdict = NoVerdict
    /\ uncaught = FALSE
    /\ pdf_failed = FALSE
    /\ interrupted = FALSE
    /\ last_parse_wrote = {}
    /\ verdict_for = None
    /\ NormIdle

\* a plain run that copies the live job-description text into the store
PlainRunSyncing(kind) ==
    /\ action' = kind
    /\ banners' = StatusBanner(session_state)
    /\ classifier_calls' = 0
    /\ generation_calls' = 0
    /\ template' = "none"
    /\ verdict' = NoVerdict
    /\ uncaught' = FALSE
    /\ pdf_failed' = FALSE
    /\ interrupted' = FALSE
    /\ session_state' = Put(session_state, "job_description", strip(job_description'))
    /\ ready' = Ready(session_state')
    /\ UNCHANGED <<last_parse_wrote, verdict_for>>

\* a run in which neither button was clicked
PlainRun(kind) ==
    /\ action' = kind
    /\ banners' = StatusBanner(session_state)
    /\ classifier_calls' = 0
    /\ generation_calls' = 0
    /\ template' = "none"
    /\ verdict' = NoVerdict
    /\ uncaught' = FALSE
    /\ pdf_failed' = FALSE
    /\ interrupted' = FALSE
    /\ ready' = Ready(session_state)
    /\ UNCHANGED <<session_state, last_parse_wrote, verdict_for>>

\* the user uploads, replaces or removes the resume file
Upload ==
    /\ \E f \in Files \cup {NoFile} :
          /\ f # resume_file
          /\ resume_file' = f
    /\ UNCHANGED <<job_description, normVars>>
    /\ PlainRun("upload")

\* the user edits the job-description text area
Paste ==
    /\ \E jd \in JDInputs :
          /\ jd # job_description
          /\ job_description' = jd
    /\ UNCHANGED <<resume_file, normVars>>
    /\ PlainRun("paste")

\* the user clicks "Continue -> Parse Resume" and the run finishes
ParseClick ==
    /\ \E b \in {ParseBegin(resume_file, job_description, session_state)} :
       \E resp \in Responses :
       \E o \in {IF b.done THEN b.out
                 ELSE ParseStore(b.text, b.jd, session_state, resp)} :
          /\ session_state' = o.ss
          /\ banners' = StatusBanner(session_state) \o o.banners
          /\ classifier_calls' = o.calls
          /\ verdict' = o.verdict
          /\ uncaught' = o.uncaught
          /\ last_parse_wrote' = IF o.wrote = {} THEN last_parse_wrote ELSE o.wrote
          /\ verdict_for' = IF "job_description_valid" \in o.wrote
                            THEN o.ss["job_description"] ELSE verdict_for
          /\ ready' = Ready(o.ss)
          /\ pdf_failed' = PdfFailed(b)
    /\ action' = "parse"
    /\ interrupted' = FALSE
    /\ generation_calls' = 0
    /\ template' = "none"
    /\ UNCHANGED <<resume_file, job_description, normVars>>

\* the user clicks "Analyze with AI", which is enabled on screen; st.button
\* returns the click whatever flag this run renders the button with
AnalyzeClick ==
    /\ ready
    /\ \E gen \in GenResponses :
          \E o \in {AnalyzeHandler(session_state, gen)} :
          /\ banners' = StatusBanner(session_state) \o o.banners
          /\ generation_calls' = o.calls
          /\ template' = o.template
          /\ uncaught' = o.uncaught
    /\ action' = "analyze"
    /\ pdf_failed' = FALSE
    /\ interrupted' = FALSE
    /\ classifier_calls' = 0
    /\ verdict' = NoVerdict
    /\ ready' = Ready(session_state)
    /\ UNCHANGED <<resume_file, job_description, session_state, last_parse_wrote,
                   verdict_for, normVars>>

\* a run with no button clicked that a widget event ends early
PlainRunInterrupted(kind) ==
    /\ \E c \in {PlainCut(session_state, at) : at \in CutPoints} :
          /\ c.enabled
          /\ banners' = c.banners
    /\ action' = kind
    /\ classifier_calls' = 0
    /\ generation_calls' = 0
    /\ template' = "none"
    /\ verdict' = NoVerdict
    /\ uncaught' = FALSE
    /\ pdf_failed' = FALSE
    /\ interrupted' = TRUE
    /\ UNCHANGED <<ready, session_state, last_parse_wrote, verdict_for>>

\* the run for an upload is ended early
UploadInterrupted ==
    /\ \E f \in Files \cup {NoFile} :
          /\ f # resume_file
          /\ resume_file' = f
    /\ UNCHANGED <<job_description, normVars>>
    /\ PlainRunInterrupted("upload")

\* the run for an edit of the job description is ended early
PasteInterrupted ==
    /\ \E jd \in JDInputs :
          /\ jd # job_description
          /\ job_description' = jd
    /\ UNCHANGED <<resume_file, normVars>>
    /\ PlainRunInterrupted("paste")

\* a parse run that a widget event ends early; the Analyze button on screen
\* stays the one of the run before
ParseInterrupted ==
    /\ \E b \in {ParseBegin(resume_file, job_description, session_state)} :
       \E c \in UNION {{ParseCut(b, o, session_state, at) :
                           o \in {IF b.done THEN b.out
                                  ELSE ParseStore(b.text, b.jd, session_state, resp)},
                           at \in CutPoints} : resp \in Responses} :
          /\ c.enabled
          /\ session_state' = c.ss
          /\ banners' = c.banners
          /\ classifier_calls' = c.calls
          /\ verdict' = c.verdict
          /\ last_parse_wrote' = IF c.wrote = {} THEN last_parse_wrote ELSE c.wrote
          /\ verdict_for' = IF "job_description_valid" \in c.wrote
                            THEN c.ss["job_description"] ELSE verdict_for
          /\ pdf_failed' = c.failed
    /\ action' = "parse"
    /\ interrupted' = TRUE
    /\ uncaught' = FALSE
    /\ generation_calls' = 0
    /\ template' = "none"
    /\ UNCHANGED <<ready, resume_file, job_description, normVars>>

\* an Analyze run that a widget event ends early
AnalyzeInterrupted ==
    /\ ready
    /\ \E gen \in GenResponses :
       \E c \in {AnalyzeCut(session_state, o, at) :
                    o \in {AnalyzeHandler(session_state, gen)}, at \in CutPoints} :
          /\ c.enabled
          /\ banners' = c.banners
          /\ generation_calls' = c.calls
          /\ template' = c.template
          /\ ready' = IF c.rendered THEN Ready(session_state) ELSE ready
    /\ action' = "analyze"
    /\ pdf_failed' = FALSE
    /\ interrupted' = TRUE
    /\ uncaught' = FALSE
    /\ classifier_calls' = 0
    /\ verdict' = NoVerdict
    /\ UNCHANGED <<resume_file, job_description, session_state, last_parse_wrote,
                   verdict_for, normVars>>

Next ==
    \/ Upload
    \/ UploadInterrupted
    \/ Paste
    \/ PasteInterrupted
    \/ ParseClick
    \/ ParseInterrupted
    \/ AnalyzeClick
    \/ AnalyzeInterrupted

Spec == Init /\ [][Next]_vars

(***************************************************************************)
(* The normalizer on arbitrary text                                        *)
(***************************************************************************)
SessionIdle ==
    /\ resume_file = NoFile
    /\ job_description = <<>>
    /\ session_state = EmptyState
    /\ ready = FALSE
    /\ action = "open"
    /\ banners = <<>>
    /\ classifier_calls = 0
    /\ generation_calls = 0
    /\ template = "none"
    /\ verdict = NoVerdict
    /\ uncaught = FALSE
    /\ pdf_failed = FALSE
    /\ interrupted = FALSE
    /\ last_parse_wrote = {}
    /\ verdict_for = None

InitNorm ==
    /\ t \in Texts(MaxLen) \cup {None}
    /\ cleaned = <<>>
    /\ recleaned = <<>>
    /\ npc = "start"
    /\ SessionIdle

Normalize ==
    /\ npc = "start"
    /\ cleaned' = clean_text(t)
    /\ recleaned' = clean_text(clean_text(t))
    /\ npc' = "done"
    /\ UNCHANGED <<t, sessionVars>>

NextNorm == Normalize

SpecNorm == InitNorm /\ [][NextNorm]_vars

(***************************************************************************)
(* The readiness gate's three facts                                        *)
(***************************************************************************)
R == TruthyText(session_state, "resume_text")
J == TruthyText(session_state, "job_description")
V == TruthyFlag(session_state, "job_description_valid")

GateState ==
    CASE ~R /\ ~J /\ ~V -> "EMPTY"
      [] R /\ J /\ ~V -> "PARSED"
      [] R /\ J /\ V -> "READY"
      [] ~R /\ J -> "NO_RESUME"
      [] R /\ ~J /\ ~V -> "RESUME_ONLY"
      [] OTHER -> "OTHER"

(***************************************************************************)
(* Properties                                                              *)
(***************************************************************************)

\* C1: in every reachable state the Analyze button is enabled iff the stored
\* resume text is non-empty, the stored job description is non-empty and the
\* stored validation flag is true, all three having been recorded by the last
\* parse action that recorded anything.
C1_GateIffLastParse ==
    ready <=> (R /\ J /\ V /\ last_parse_wrote = Keys)

\* C2: a parse publishes R, J and V atomically (all three keys or none), and
\* the stored validation flag is the verdict computed for the stored job
\* description.
C2_AtomicPublish ==
    /\ last_parse_wrote \in {{}, Keys}
    /\ "job_description_valid" \in DOMAIN session_state
          => verdict_for = session_state["job_description"]

RejectedParse ==
    {"error: upload a PDF resume first", "error: paste the job description"}

\* C3: a run triggered by an upload, by an edit of the job description, by
\* Analyze, or by a parse rejected for a missing file or a blank job
\* description leaves st.session_state unchanged; when the gate is READY,
\* Analyze is enabled after the run if it was enabled before it or the run
\* finished.
C3_OnlyParseWrites ==
    [][ (action' \in {"upload", "paste", "analyze"}
            \/ (action' = "parse" /\ banners' # <<>>
                  /\ banners'[Len(banners')] \in RejectedParse))
        => /\ session_state' = session_state
           /\ (Ready(session_state) /\ (ready \/ ~interrupted')) => ready' ]_vars

\* C3 witness: the gate is READY and Analyze enabled after the job description
\* was edited to a text that differs from the stored one
C3_Witness ==
    /\ action = "paste"
    /\ ready
    /\ R /\ J /\ V
    /\ strip(job_description) # session_state["job_description"]

\* C4: a job description of fewer than 40 words is judged invalid with zero
\* requests to the classification service; a parse sends at most one request,
\* and only for a job description of 40 or more words; no other run sends any.
C4_LengthFilter ==
    /\ classifier_calls \in {0, 1}
    /\ verdict.called /\ WordCount(verdict.jd) < 40
          => ~verdict.is_valid /\ ~verdict.raised /\ classifier_calls = 0
    /\ classifier_calls = 1
          => action = "parse" /\ verdict.called /\ WordCount(verdict.jd) >= 40

\* C4 witness: a parse classified a 39-word job description without a request
C4_Witness ==
    /\ action = "parse"
    /\ verdict.called
    /\ WordCount(verdict.jd) = 39
    /\ ~verdict.is_valid
    /\ classifier_calls = 0

\* the response is a JSON object whose is_valid member is the boolean true
StrictlyValid(resp) ==
    /\ resp.api = "ok"
    /\ resp.content.form = "json"
    /\ resp.content.value.type = "object"
    /\ "is_valid" \in DOMAIN resp.content.value.members
    /\ resp.content.value.members["is_valid"].type = "bool"
    /\ resp.content.value.members["is_valid"].val

\* C5: for a job description of 40 or more words on which the service
\* answered, the classifier returns is_valid = true only when the response is
\* a JSON object whose is_valid member is the boolean true, and false for
\* every other response.
C5_FailsClosed ==
    (verdict.called /\ WordCount(verdict.jd) >= 40 /\ ~verdict.raised)
        => (verdict.is_valid <=> StrictlyValid(verdict.resp))

\* C6: clean_text is idempotent.
C6_Idempotent ==
    npc = "done" => recleaned = cleaned

HasBlankRun(s) == \E i \in 1..(Len(s) - 1) : IsBlank(s[i]) /\ IsBlank(s[i + 1])
HasLongNewlineRun(s) ==
    \E i \in 1..(Len(s) - 2) : s[i] = NL /\ s[i + 1] = NL /\ s[i + 2] = NL
HasZeroWidth(s) == \E i \in 1..Len(s) : IsZeroWidth(s[i])
HasOuterWhitespace(s) ==
    s # <<>> /\ (s[1] \in Whitespace \/ s[Len(s)] \in Whitespace)

Normalized(s) ==
    /\ ~HasBlankRun(s)
    /\ ~HasLongNewlineRun(s)
    /\ ~HasZeroWidth(s)
    /\ ~HasOuterWhitespace(s)

\* C7: the output of clean_text, and the stored resume text, has no run of two
\* or more spaces/tabs, no run of more than two newlines, no zero-width space
\* or BOM and no leading or trailing whitespace; empty or None input gives the
\* empty text.
C7_NormalizedOutput ==
    /\ npc = "done" => Normalized(cleaned)
    /\ npc = "done" /\ (t = None \/ t = <<>>) => cleaned = <<>>
    /\ "resume_text" \in DOMAIN session_state => Normalized(session_state["resume_text"])

C9_ThreeStates ==
    GateState \in {"EMPTY", "PARSED", "READY"}

\* C9 amended: the gate starts EMPTY and every reachable state is EMPTY,
\* PARSED, READY, has J set while R is unset (V false or true), or has R set
\* while J and V are unset; V is never true while J is unset, a stored job
\* description is never empty, and a stored flag comes with a stored resume
\* text and job description.
C9_JFirst ==
    /\ GateState \in {"EMPTY", "PARSED", "READY", "NO_RESUME", "RESUME_ONLY"}
    /\ action = "open" => GateState = "EMPTY"
    /\ V => J
    /\ "job_description" \in DOMAIN session_state
          => session_state["job_description"] # <<>>
    /\ "job_description_valid" \in DOMAIN session_state
          => {"resume_text", "job_description"} \subseteq DOMAIN session_state

\* C9 witness: after a parse of a PDF that extracts to the empty text, J is
\* set and V is true while R is unset
C9_Witness ==
    /\ action = "parse"
    /\ "resume_text" \in DOMAIN session_state
    /\ ~R /\ J /\ V

\* C10: a run sends a request to the generation service only if it is an
\* Analyze run started with the gate READY (R, J and V stored) and a stored
\* job description of 40 or more words, and the prompt of that request is the
\* comparison template; the resume-only template is never chosen.
C10_ComparisonOnly ==
    [][ /\ generation_calls' > 0
            => /\ action' = "analyze"
               /\ ready
               /\ R /\ J /\ V
               /\ WordCount(session_state["job_description"]) >= 40
               /\ template' = "comparison"
        /\ template' # "resume_only" ]_vars

====
